---- MODULE Spec2Model ----
(***************************************************************************)
(* Model of the LLM comparison tool: the OpenRouter interface              *)
(* (src/llm_openrouter.py) and the Streamlit page that drives it           *)
(* (src/app.py).                                                           *)
(*                                                                         *)
(* The state is the process environment holding the API keys, the          *)
(* Streamlit session state, the call frame of the main thread inside       *)
(* chat_completion_multiple / cost_and_stats_multiple, and the futures of  *)
(* the thread pool of the current batch.  Worker threads and the main      *)
(* thread interleave at the granularity of: a worker picking a task up     *)
(* (which resolves the credential and issues the HTTP request), the        *)
(* gateway answering, the main thread taking one future out of             *)
(* as_completed, and the executor's shutdown on leaving the with block.    *)
(***************************************************************************)
EXTENDS Integers, FiniteSets, Sequences, TLC

\* ------------------------------------------------------------------ bounds
\* Largest number of models selected for one batch.
MaxBatch == 2

\* Largest number of models of a batch on the pool: one more than the
\* executor has workers.
MaxTasks == 6

\* ------------------------------------------------------------- data model
\* ThreadPoolExecutor() without max_workers: min(32, cpu_count + 4), here for
\* a single-CPU host.
DefaultMaxWorkers == 5

\* Model values as available_models builds them from the gateway's list
\* (fields that no operation reads are left out).  Nothing in the loader
\* makes display names unique: two of the models share one.
Catalog ==
    { [id |-> "vendor/alpha", name |-> "Alpha"],
      [id |-> "vendor/beta", name |-> "Beta"],
      [id |-> "other/beta", name |-> "Beta"] }

\* Ids the gateway hands out for generations.
GenIds == {"gen-1", "gen-2"}

\* Values of the two environment variables; "" is unset or empty.
OpenAIKeys == {"", "sk-openai"}
OpenRouterKeys == {"", "sk-or"}

\* Arguments a caller of the library passes: temperatures in tenths (0.0
\* and 1.0) and max_tokens values around the least valid one.
Temperatures == {0, 10}
CallerMaxTokens == {-1, 0, 1}

\* The values the page's slider and number input start with.
DefaultTemperature == 0
DefaultMaxTokens == 2048

\* What the gateway can answer to a chat request, and to a stats request.
\*   "ok"        HTTP 200 with every required field
\*   "status"    an error status (4xx/5xx) other than the stats 404
\*   "notfound"  HTTP 404
\*   "transport" timeout or connection error raised by requests
\*   "partial"   HTTP 200 whose payload lacks a required field
ChatReplies == {"ok", "status", "transport", "partial"}
StatsReplies == {"ok", "notfound", "status", "transport", "partial"}

\* An answer is the reply and, with "ok" to a chat request, the id the
\* gateway gave the generation.
ChatAnswers ==
    { [r |-> "ok", g |-> g] : g \in GenIds }
        \cup { [r |-> r, g |-> ""] : r \in ChatReplies \ {"ok"} }
StatsAnswers == { [r |-> r, g |-> ""] : r \in StatsReplies }
Answers(f) == IF f = "chat" THEN ChatAnswers ELSE StatsAnswers

\* Outcome of a task (a future's result or exception).
Pending == [kind |-> "pending", id |-> "", model |-> "", exc |-> ""]
NoneValue == [kind |-> "none", id |-> "", model |-> "", exc |-> ""]
Raise(e) == [kind |-> "exc", id |-> "", model |-> "", exc |-> e]
\* LLMResponse with its id and model fields.
LLMResponse(id, model) == [kind |-> "value", id |-> id, model |-> model, exc |-> ""]
\* LLMCostAndStats with its id field.
LLMCostAndStats(id) == [kind |-> "value", id |-> id, model |-> "", exc |-> ""]

EmptyMap == [m \in {} |-> Pending]

VARIABLES
    env,        \* process environment: [openai, openrouter]
    session,    \* st.session_state: [response, cost_and_stats]
    download,   \* what the last script run left on the page
    pc,         \* main thread: "idle"; in a library call "collect", "shutdown";
                \* back in the caller "returned", "raised"
    fn,         \* function the main thread is in: "none", "chat", "stats"
    args,       \* arguments of the call: [models, temperature, max_tokens, input]
    futures,    \* the executor's futures of the batch, by model
    results,    \* the results dictionary built by the collection loop
    raised      \* exception unwinding the main thread, "" if none

vars == <<env, session, download, pc, fn, args, futures, results, raised>>

NoArgs == [models |-> {}, temperature |-> 0, max_tokens |-> 0, input |-> EmptyMap]
NoDownload == [kind |-> "nothing", json |-> EmptyMap]
Envs == [openai : OpenAIKeys, openrouter : OpenRouterKeys]

\* ------------------------------------------------------- gateway client
\* _get_api_key: the OpenAI key, else the OpenRouter key, else "" standing
\* for the EnvironmentError.
GetApiKey(e) == IF e.openai # "" THEN e.openai ELSE e.openrouter

\* chat_completion after the request went out: the outcome for gateway
\* reply r (with generation id g when the reply carries one).
ChatCompletion(model, r, g) ==
    CASE r = "transport" -> Raise("ConnectionError")
      [] r = "status" -> Raise("HTTPError")
      [] r = "partial" -> Raise("KeyError")
      [] OTHER -> LLMResponse(g, model)

\* Mutant: the Stats keeps the default id (cost_stats.id is never set).
CostAndStatsDefaultId(response, r) ==
    CASE r \in {"transport", "notfound", "status"} -> NoneValue
      [] r = "partial" -> Raise("KeyError")
      [] OTHER -> LLMCostAndStats("")

\* Mutant: no check for 404 and an except clause for connection errors
\* only, so that raise_for_status's HTTPError leaves the lookup.
CostAndStatsNotFoundRaises(response, r) ==
    CASE r = "transport" -> NoneValue
      [] r \in {"notfound", "status"} -> Raise("HTTPError")
      [] r = "partial" -> Raise("KeyError")
      [] OTHER -> LLMCostAndStats(response.id)

\* cost_and_stats after the request went out.
CostAndStats(response, r) ==
    CASE r = "transport" -> NoneValue
      [] r = "notfound" -> NoneValue
      [] r = "status" -> NoneValue
      [] r = "partial" -> Raise("KeyError")
      [] OTHER -> LLMCostAndStats(response.id)

\* A submitted future that no worker has taken yet.
Queued == [st |-> "queued", auth |-> "", sent |-> 0, reply |-> "", out |-> Pending]

\* Mutant: the request goes out before the credential is looked at.
StartedSendsFirst(t, key) ==
    IF key = ""
    THEN [t EXCEPT !.st = "done", !.sent = @ + 1, !.out = Raise("EnvironmentError")]
    ELSE [t EXCEPT !.st = "running", !.auth = key, !.sent = @ + 1]

\* Mutant: the key is resolved once for a batch: a task taken up while
\* another task of the batch has its request out reuses that task's key.
StartedCachedKey(t, key) ==
    LET out == { m \in DOMAIN futures : futures[m].auth # "" }
        cached == IF out = {} THEN key ELSE futures[CHOOSE m \in out : TRUE].auth
    IN IF cached = ""
       THEN [t EXCEPT !.st = "done", !.out = Raise("EnvironmentError")]
       ELSE [t EXCEPT !.st = "running", !.auth = cached, !.sent = @ + 1]

\* The task is taken up: it resolves the credential first and raises without
\* one; with one it sends its single HTTP request, key in the header.
Started(t, key) ==
    IF key = ""
    THEN [t EXCEPT !.st = "done", !.out = Raise("EnvironmentError")]
    ELSE [t EXCEPT !.st = "running", !.auth = key, !.sent = @ + 1]

\* Mutant: a request answered with an error status or lost in transport is
\* sent a second time before the task gives up.
FinishedRetries(t, f, m, a, input) ==
    [t EXCEPT !.st = "done", !.auth = "", !.reply = a.r,
              !.sent = IF a.r \in {"status", "transport"} THEN @ + 1 ELSE @,
              !.out = IF f = "chat" THEN ChatCompletion(m.id, a.r, a.g)
                                    ELSE CostAndStats(input[m], a.r)]

\* The request of a running task is answered with r and the task ends.
Finished(t, f, m, a, input) ==
    [t EXCEPT !.st = "done", !.auth = "", !.reply = a.r,
              !.out = IF f = "chat" THEN ChatCompletion(m.id, a.r, a.g)
                                    ELSE CostAndStats(input[m], a.r)]

\* Mutant: a worker is not handed back to the executor when its task has
\* ended, so every task taken up holds a worker for good.
RunningNeverFreed == { m \in DOMAIN futures : futures[m].st # "queued" }

\* The tasks that hold a worker.
Running == { m \in DOMAIN futures : futures[m].st = "running" }
Done == { m \in DOMAIN futures : futures[m].st = "done" }
Raising == { m \in DOMAIN futures : futures[m].out.kind = "exc" }

\* ----------------------------------------------------------------- Init
Init ==
    /\ env \in Envs
    /\ session = [response |-> EmptyMap, cost_and_stats |-> EmptyMap]
    /\ download = NoDownload
    /\ pc = "idle"
    /\ fn = "none"
    /\ args = NoArgs
    /\ futures = EmptyMap
    /\ results = EmptyMap
    /\ raised = ""

\* ------------------------------------------------------------ thread pool
\* with ThreadPoolExecutor() as executor: futures = {executor.submit(...)},
\* results = {} and the collection loop is entered; with nothing submitted
\* the loop ends at once and the with block is left.
Submit(f, keys) ==
    /\ fn' = f
    /\ futures' = [m \in keys |-> Queued]
    /\ results' = EmptyMap
    /\ raised' = ""
    /\ pc' = IF keys = {} THEN "shutdown" ELSE "collect"

\* A worker thread takes a queued task.
Start(m) ==
    /\ m \in DOMAIN futures
    /\ futures[m].st = "queued"
    /\ Cardinality(Running) < DefaultMaxWorkers
    /\ futures' = [futures EXCEPT ![m] = Started(@, GetApiKey(env))]
    /\ UNCHANGED <<env, session, download, pc, fn, args, results, raised>>

\* The gateway answers the request of task m (or the transport gives up).
Reply(m, a) ==
    /\ m \in DOMAIN futures
    /\ futures[m].st = "running"
    /\ a \in Answers(fn)
    /\ futures' = [futures EXCEPT ![m] = Finished(@, fn, m, a, args.input)]
    /\ UNCHANGED <<env, session, download, pc, fn, args, results, raised>>

\* Mutant: the completed futures are paired with the models in another
\* order than they were submitted for: the outcome of task m goes under any
\* key of the batch that has no entry yet.
CollectUnderAnyKey(m) ==
    /\ pc = "collect"
    /\ m \in Done
    /\ m \notin DOMAIN results
    /\ IF futures[m].out.kind = "exc"
       THEN /\ raised' = futures[m].out.exc
            /\ pc' = "shutdown"
            /\ UNCHANGED results
       ELSE /\ \E key \in DOMAIN futures \ DOMAIN results :
                  results' = [k \in DOMAIN results \cup {key} |->
                                 IF k = key THEN futures[m].out ELSE results[k]]
            /\ pc' = IF DOMAIN results' = DOMAIN futures THEN "shutdown" ELSE "collect"
            /\ UNCHANGED raised
    /\ UNCHANGED <<env, session, download, fn, args, futures>>

\* One turn of "for future in as_completed(futures)": results[model] =
\* future.result(), which re-raises the task's exception.
Collect(m) ==
    /\ pc = "collect"
    /\ m \in Done
    /\ m \notin DOMAIN results
    /\ IF futures[m].out.kind = "exc"
       THEN /\ raised' = futures[m].out.exc
            /\ pc' = "shutdown"
            /\ UNCHANGED results
       ELSE /\ results' = [k \in DOMAIN results \cup {m} |->
                              IF k = m THEN futures[m].out ELSE results[k]]
            /\ pc' = IF DOMAIN results' = DOMAIN futures THEN "shutdown" ELSE "collect"
            /\ UNCHANGED raised
    /\ UNCHANGED <<env, session, download, fn, args, futures>>

\* Mutant: shutdown(wait=False), which leaves the with block at once.
ShutdownNoWait == TRUE

\* Leaving the with block runs executor.shutdown(wait=True): the main
\* thread goes on only when every submitted task has run to its end.
ShutdownWait == DOMAIN futures = Done

\* The with block is left and the call returns its dictionary, or the
\* exception goes on to the caller.
Shutdown ==
    /\ pc = "shutdown"
    /\ ShutdownWait
    /\ pc' = IF raised = "" THEN "returned" ELSE "raised"
    /\ UNCHANGED <<env, session, download, fn, args, futures, results, raised>>

\* The .env file or the environment changes.
EnvChange(e) ==
    /\ e # env
    /\ env' = e
    /\ UNCHANGED <<session, download, pc, fn, args, futures, results, raised>>

\* -------------------------------------------------------- library calls
Selections == { s \in SUBSET Catalog : Cardinality(s) <= MaxBatch }

\* Dictionaries of responses a caller can hand to cost_and_stats_multiple.
ResponseMaps ==
    UNION { { [m \in s |-> LLMResponse(ids[m], m.id)] : ids \in [s -> GenIds] } : s \in Selections }

\* chat_completion_multiple(models, prompt, user_input, temperature, max_tokens)
ChatCompletionMultiple(models, temperature, max_tokens) ==
    /\ pc = "idle"
    /\ args' = [models |-> models, temperature |-> temperature,
                max_tokens |-> max_tokens, input |-> EmptyMap]
    /\ Submit("chat", models)
    /\ UNCHANGED <<env, session, download>>

\* Mutant: a lookup is submitted for every model of the catalog instead of
\* for the entries of llm_responses.
CostAndStatsMultipleEveryModel(llm_responses) ==
    /\ pc = "idle"
    /\ args' = [NoArgs EXCEPT !.input = llm_responses]
    /\ Submit("stats", Catalog)
    /\ UNCHANGED <<env, session, download>>

\* cost_and_stats_multiple(llm_responses)
CostAndStatsMultiple(llm_responses) ==
    /\ pc = "idle"
    /\ args' = [NoArgs EXCEPT !.input = llm_responses]
    /\ Submit("stats", DOMAIN llm_responses)
    /\ UNCHANGED <<env, session, download>>

ClearFrame ==
    /\ pc' = "idle"
    /\ fn' = "none"
    /\ args' = NoArgs
    /\ futures' = EmptyMap
    /\ results' = EmptyMap
    /\ raised' = ""

\* The caller has the dictionary (or the exception) and goes on.
Resume ==
    /\ pc \in {"returned", "raised"}
    /\ ClearFrame
    /\ UNCHANGED <<env, session, download>>

Next ==
    \/ \E s \in Selections, t \in Temperatures, k \in CallerMaxTokens :
          ChatCompletionMultiple(s, t, k)
    \/ \E rs \in ResponseMaps : CostAndStatsMultiple(rs)
    \/ Resume
    \/ \E m \in Catalog : Start(m)
    \/ \E m \in Catalog, a \in ChatAnswers \cup StatsAnswers : Reply(m, a)
    \/ \E m \in Catalog : Collect(m)
    \/ Shutdown
    \/ \E e \in Envs : EnvChange(e)

\* The library under any caller, thread by thread.
Spec == Init /\ [][Next]_vars

\* ------------------------------------------------------- the pool at large
\* The library on batches that outnumber the executor's workers, over a
\* catalog as long as the largest batch.  To keep the batches of MaxTasks
\* tasks within reach the surroundings are cut down: the environment holds
\* the OpenRouter key or none and stays as it is, the caller passes the
\* defaults, and the gateway answers in full, except that it may answer
\* the first model of the catalog with a payload that lacks a field.
PoolModel(i) == [id |-> "vendor/m" \o ToString(i), name |-> "M" \o ToString(i)]
FirstModels(n) == { PoolModel(i) : i \in 1..n }
LargeCatalog == FirstModels(MaxTasks)

PoolInit == Init /\ env.openai = ""

PoolAnswers(m) ==
    { [r |-> "ok", g |-> "gen-1"], [r |-> "ok", g |-> ""] }
        \cup (IF m = PoolModel(1) THEN { [r |-> "partial", g |-> ""] } ELSE {})

\* The request of task m ends.
PoolReply(m) == \E a \in PoolAnswers(m) : Reply(m, a)

PoolNext ==
    \/ \E n \in 0..MaxTasks :
          ChatCompletionMultiple(FirstModels(n), DefaultTemperature, DefaultMaxTokens)
    \/ \E n \in 0..MaxTasks :
          CostAndStatsMultiple([m \in FirstModels(n) |-> LLMResponse("gen-1", m.id)])
    \/ Resume
    \/ \E m \in LargeCatalog : Start(m)
    \/ \E m \in LargeCatalog : PoolReply(m)
    \/ \E m \in LargeCatalog : Collect(m)
    \/ Shutdown

PoolSpec == PoolInit /\ [][PoolNext]_vars

\* The executor's work queue is first in, first out and an idle worker
\* takes the next item; requests.post and requests.get carry a timeout, so
\* every request out ends; the main thread is not held up by anything but
\* the futures it waits for.
FairPoolSpec ==
    /\ PoolSpec
    /\ WF_vars(\E m \in LargeCatalog : Start(m))
    /\ \A m \in LargeCatalog : WF_vars(PoolReply(m))
    /\ WF_vars(\E m \in LargeCatalog : Collect(m))
    /\ WF_vars(Shutdown)

\* ---------------------------------------------------------------- the page
\* The script of app.py is one thread that blocks in each of the two library
\* calls until it is back, so a script run is modelled call by call: each
\* call runs its batch to the end in one step.  Between script runs only
\* the session state, the page and the environment exist.

\* The futures of a batch over keys once every task has run, task m having
\* been answered with answers[m].
RunBatch(f, keys, e, answers, input) ==
    [m \in keys |->
        LET t == Started(Queued, GetApiKey(e)) IN
        IF t.st = "done" THEN t ELSE Finished(t, f, m, answers[m], input)]

\* Orders in which a dictionary with key set S can have been filled.
Orders(S) == { o \in [1..Cardinality(S) -> S] : \A m \in S : \E i \in DOMAIN o : o[i] = m }

\* Position of the last key of order o that carries name n.
LastWith(o, n) == CHOOSE i \in DOMAIN o :
    /\ o[i].name = n
    /\ \A j \in DOMAIN o : o[j].name = n => j <= i

\* The export join: response_json[model.name] = {"response": ...,
\* "cost_and_stats": ... or None}, written in the dictionary order o of
\* session_state.response; a later write under the same name replaces the
\* earlier one.
ResponseJson(s, o) ==
    [n \in { m.name : m \in DOMAIN s.response } |->
        LET m == o[LastWith(o, n)] IN
        [response |-> s.response[m],
         cost_and_stats |-> IF m \in DOMAIN s.cost_and_stats
                            THEN s.cost_and_stats[m] ELSE NoneValue]]

\* The end of a script run: if st.session_state.response: show_response and
\* the download button.  The dictionary order is the order in which the
\* futures were collected, which the model does not keep: any order.
Render(s) ==
    IF DOMAIN s.response = {}
    THEN download' = NoDownload
    ELSE \E o \in Orders(DOMAIN s.response) :
            download' = [kind |-> "results", json |-> ResponseJson(s, o)]

\* get_cost_and_stats: the stats that are not None.
FilterNone(stats) == [m \in { k \in DOMAIN stats : stats[k].kind # "none" } |-> stats[m]]

\* The library call of the script: the batch runs to its end; the call then
\* raises the exception of one of its tasks, if any raised, and its frame
\* is gone; else it returns the dictionary of the tasks' results.
Call(f, batch, a) ==
    /\ fn' = f
    /\ IF \E m \in DOMAIN batch : batch[m].out.kind = "exc"
       THEN /\ \E m \in DOMAIN batch :
                  /\ batch[m].out.kind = "exc"
                  /\ raised' = batch[m].out.exc
            /\ args' = NoArgs
            /\ futures' = EmptyMap
            /\ results' = EmptyMap
            /\ pc' = "raised"
       ELSE /\ raised' = ""
            /\ args' = a
            /\ futures' = batch
            /\ results' = [m \in DOMAIN batch |-> batch[m].out]
            /\ pc' = "returned"

\* Mutant: the stored results are reset before the dispatch, so that a
\* dispatch that raises leaves them empty.
AppSendResetsFirst(models, answers) ==
    /\ pc = "idle"
    /\ models # {}
    /\ Call("chat", RunBatch("chat", models, env, answers, EmptyMap),
            [models |-> models, temperature |-> DefaultTemperature,
             max_tokens |-> DefaultMaxTokens, input |-> EmptyMap])
    /\ session' = IF pc' = "returned"
                  THEN [session EXCEPT !.response = results']
                  ELSE [response |-> EmptyMap, cost_and_stats |-> EmptyMap]
    /\ download' = NoDownload
    /\ UNCHANGED env

\* Send Request pressed with models selected and a request entered:
\* st.session_state.response = get_llm_response(user_input), with the
\* widgets' default temperature and max_tokens.
AppSend(models, answers) ==
    /\ pc = "idle"
    /\ models # {}
    /\ Call("chat", RunBatch("chat", models, env, answers, EmptyMap),
            [models |-> models, temperature |-> DefaultTemperature,
             max_tokens |-> DefaultMaxTokens, input |-> EmptyMap])
    /\ session' = IF pc' = "returned" THEN [session EXCEPT !.response = results'] ELSE session
    /\ download' = NoDownload
    /\ UNCHANGED env

\* st.session_state.cost_and_stats = get_cost_and_stats(st.session_state.response)
AppStats(answers) ==
    /\ pc = "returned"
    /\ fn = "chat"
    /\ Call("stats", RunBatch("stats", DOMAIN session.response, env, answers, session.response),
            [NoArgs EXCEPT !.input = session.response])
    /\ session' = IF pc' = "returned"
                  THEN [session EXCEPT !.cost_and_stats = FilterNone(results')]
                  ELSE session
    /\ UNCHANGED <<env, download>>

\* An exception left the library call: nothing in the script catches it,
\* the run ends there and the page shows the exception.
AppAbort ==
    /\ pc = "raised"
    /\ download' = [kind |-> "exception", json |-> EmptyMap]
    /\ ClearFrame
    /\ UNCHANGED <<env, session>>

\* The rest of the run that sent: the results are rendered.
AppShow ==
    /\ pc = "returned"
    /\ fn = "stats"
    /\ Render(session)
    /\ ClearFrame
    /\ UNCHANGED <<env, session>>

\* Send Request pressed with no model selected or no request entered:
\* st.error and st.stop end the run before anything is rendered.
AppSendRejected ==
    /\ pc = "idle"
    /\ download' = [kind |-> "stopped", json |-> EmptyMap]
    /\ UNCHANGED <<env, session, pc, fn, args, futures, results, raised>>

\* A script run without Send (any other widget, the download button).
AppRerun ==
    /\ pc = "idle"
    /\ Render(session)
    /\ UNCHANGED <<env, session, pc, fn, args, futures, results, raised>>

AppNext ==
    \/ \E s \in Selections : \E answers \in [s -> ChatAnswers] : AppSend(s, answers)
    \/ \E answers \in [DOMAIN session.response -> StatsAnswers] : AppStats(answers)
    \/ AppShow
    \/ AppAbort
    \/ AppSendRejected
    \/ AppRerun
    \/ \E e \in Envs : EnvChange(e)

\* The page: script runs over the session state.
AppSpec == Init /\ [][AppNext]_vars

\* ------------------------------------------------------------ properties
\* The main thread is back in the caller of the library function.
BackInCaller == pc \in {"returned", "raised"}

\* Task m's chat call failed with a transport or protocol error.
ChatFailed(m) == futures[m].reply \in {"status", "transport", "partial"}

\* No task of the batch found the credential missing.
CredentialFound ==
    \A m \in DOMAIN futures : futures[m].out # Raise("EnvironmentError")

\* What the page's call-by-call view of the library rests on: a call that
\* returns hands back exactly the results of its tasks, none of which
\* raised, and a call that raises raises the exception of one of its tasks.
CallIsItsBatch ==
    /\ pc = "returned" =>
          /\ Raising = {}
          /\ results = [m \in DOMAIN futures |-> futures[m].out]
    /\ pc = "raised" => \E m \in Raising : raised = futures[m].out.exc

\* C1: whenever chat_completion_multiple, called with valid arguments, hands
\* control back, the credential having been there for every task, and the
\* chat call of one model failed with a transport or protocol error while
\* that of another succeeded, it has returned a dictionary with an entry for every model: the Response of
\* every model whose call succeeded and a failure entry for the others.
C1_FailureIsolation ==
    (fn = "chat" /\ BackInCaller /\ CredentialFound /\ args.max_tokens > 0
        /\ \E m, k \in DOMAIN futures : ChatFailed(m) /\ futures[k].reply = "ok") =>
        /\ pc = "returned"
        /\ \A m \in DOMAIN futures :
              /\ m \in DOMAIN results
              /\ futures[m].reply = "ok" => results[m] = futures[m].out
              /\ ChatFailed(m) => results[m].kind = "exc"

\* C2: whenever chat_completion_multiple, called with valid arguments and a
\* nonempty set of models, hands control back, the credential having been
\* there for every task, it has returned a dictionary whose key set is
\* exactly that set.
C2_KeySetIsModelSet ==
    (fn = "chat" /\ BackInCaller /\ CredentialFound /\ args.max_tokens > 0
        /\ args.models # {}) =>
        /\ pc = "returned"
        /\ DOMAIN results = args.models

\* C3: whenever the main thread is outside the two library functions, be it
\* after a return or after an exception, every task of the batch has run to
\* its end, and a returned dictionary has an entry for every task.
C3_Barrier ==
    pc \in {"idle", "returned", "raised"} =>
        /\ \A m \in DOMAIN futures : futures[m].st = "done"
        /\ pc = "returned" => DOMAIN results = DOMAIN futures

\* C3 witness: an exception went to the caller, out of a batch in which
\* another task ran to a result that was never collected.
C3_Witness ==
    /\ pc = "raised"
    /\ \E m \in DOMAIN futures :
          /\ futures[m].st = "done"
          /\ futures[m].out.kind = "value"
          /\ m \notin DOMAIN results

\* C4: every stats lookup that reached the gateway ends as Stats or None,
\* whatever the gateway answered, and cost_and_stats_multiple raises nothing
\* but the missing credential's error.
C4_LookupNeverFails ==
    fn = "stats" =>
        /\ \A m \in DOMAIN futures :
              (futures[m].st = "done" /\ futures[m].sent > 0)
                  => futures[m].out.kind \in {"value", "none"}
        /\ raised \in {"", "EnvironmentError"}

\* C6: every Stats value a lookup produces carries the id of the response
\* it was looked up for, and in the dictionary of cost_and_stats_multiple
\* the Stats under model m carries the id of the response under m in the
\* input dictionary, in whatever order the lookups are collected.
C6_CorrelationId ==
    fn = "stats" =>
        /\ \A m \in DOMAIN futures :
              futures[m].out.kind = "value" => futures[m].out.id = args.input[m].id
        /\ \A m \in DOMAIN results :
              results[m].kind = "value" => results[m].id = args.input[m].id

\* C6 witness: a returned dictionary with Stats for two responses of
\* different ids.
C6_Witness ==
    /\ fn = "stats"
    /\ pc = "returned"
    /\ \E m, k \in DOMAIN results :
          /\ results[m].kind = "value"
          /\ results[k].kind = "value"
          /\ args.input[m].id # args.input[k].id

C9_NoCredentialNoRequest ==
    [][ fn' = "chat" =>
          /\ GetApiKey(env) = "" =>
                \A m \in DOMAIN futures' :
                    futures'[m].sent > 0 =>
                        (fn = "chat" /\ m \in DOMAIN futures /\ futures[m].sent > 0)
          /\ \A m \in DOMAIN futures' :
                (futures'[m].st = "done" /\ futures'[m].sent = 0)
                    => futures'[m].out = Raise("EnvironmentError")
          /\ pc' = "returned" => \A m \in DOMAIN futures' : futures'[m].sent > 0
          /\ (pc' = "raised" /\ \A m \in DOMAIN futures' : futures'[m].sent = 0)
                => raised' = "EnvironmentError" ]_vars

\* C9 witness: a dispatch over two models has raised the EnvironmentError
\* and no task sent a request.
C9_Witness ==
    /\ fn = "chat"
    /\ pc = "raised"
    /\ raised = "EnvironmentError"
    /\ Cardinality(DOMAIN futures) >= 2
    /\ \A m \in DOMAIN futures : futures[m].sent = 0

\* C10: a dispatch called with max_tokens of 0 or less sends no request.
C10_MaxTokensValidated ==
    (fn = "chat" /\ args.max_tokens <= 0) =>
        \A m \in DOMAIN futures : futures[m].sent = 0

\* C5: a stats lookup that the gateway answers with 404 ends as None and
\* raises nothing: the error of a 404 never leaves cost_and_stats_multiple,
\* and when the call returns, the model of that lookup has its response in
\* the session and no stats, while every model whose lookup was answered in
\* full has the Stats of its response.
C5_NotFoundIsAbsent ==
    fn = "stats" =>
        /\ \A m \in DOMAIN futures :
              futures[m].reply = "notfound" => futures[m].out = NoneValue
        /\ pc = "raised" => raised \in {"KeyError", "EnvironmentError"}
        /\ (pc = "returned" /\ session.response = args.input) =>
              \A m \in DOMAIN futures :
                  futures[m].reply = "notfound" =>
                      /\ results[m] = NoneValue
                      /\ m \in DOMAIN session.response
                      /\ session.response[m].kind = "value"
                      /\ m \notin DOMAIN session.cost_and_stats
                      /\ \A k \in DOMAIN futures :
                            futures[k].reply = "ok" =>
                                /\ k \in DOMAIN session.cost_and_stats
                                /\ session.cost_and_stats[k].id = session.response[k].id

\* C5 witness: the stats round of a Send has returned, one model's lookup
\* answered with 404 and another's in full.
C5_Witness ==
    /\ fn = "stats"
    /\ pc = "returned"
    /\ \E m, k \in DOMAIN session.response :
          /\ futures[m].reply = "notfound"
          /\ futures[k].reply = "ok"
          /\ m \notin DOMAIN session.cost_and_stats
          /\ k \in DOMAIN session.cost_and_stats

\* C7: the export a run renders holds one record for each model of the
\* stored responses: as many records as models, and for every model a
\* record with its response and with its stats, or None when it has none.
C7_OneRecordPerModel ==
    download.kind = "results" =>
        /\ Cardinality(DOMAIN download.json) = Cardinality(DOMAIN session.response)
        /\ \A m \in DOMAIN session.response :
              \E n \in DOMAIN download.json :
                  /\ download.json[n].response = session.response[m]
                  /\ download.json[n].cost_and_stats =
                        IF m \in DOMAIN session.cost_and_stats
                        THEN session.cost_and_stats[m] ELSE NoneValue

\* C11: every task that sends its request, of a chat or of a stats batch,
\* carries in its Authorization header the key that _get_api_key finds in
\* the environment at that very step, whatever the environment was when the
\* batch was submitted or when an earlier task of the batch was taken up;
\* and a task taken up while no key is there sends nothing.
C11_CredentialResolvedPerCall ==
    [][ \A m \in DOMAIN futures' :
          (m \in DOMAIN futures /\ futures[m].st = "queued" /\ futures'[m].st # "queued") =>
              IF GetApiKey(env) = ""
              THEN futures'[m].sent = 0 /\ futures'[m].out = Raise("EnvironmentError")
              ELSE /\ futures'[m].st = "running"
                   /\ futures'[m].sent = 1
                   /\ futures'[m].auth = GetApiKey(env) ]_vars

\* C11 witness: the key changed between two tasks of one stats batch: both
\* have their request out, each with the key of its own moment.
C11_Witness ==
    /\ fn = "stats"
    /\ \E m, k \in Running :
          /\ futures[m].auth # futures[k].auth
          /\ futures[k].auth = GetApiKey(env)

\* C12: no task of a batch ever has more than one request behind it,
\* however it was answered; a batch has one task for each model of the
\* dispatch (for each entry of the input of the stats call) and no other;
\* and a chat task that is past the credential lookup with a key has sent
\* exactly one request.
C12_NoRetries ==
    /\ \A m \in DOMAIN futures : futures[m].sent <= 1
    /\ fn = "chat" => DOMAIN futures = args.models
    /\ fn = "stats" => DOMAIN futures = DOMAIN args.input
    /\ \A m \in DOMAIN futures :
          (futures[m].st # "queued" /\ futures[m].out # Raise("EnvironmentError"))
              => futures[m].sent = 1
    /\ \A m \in DOMAIN futures :
          futures[m].reply # "" => futures[m].sent = 1

\* C12 witness: a dispatch over two models has raised; one request was
\* answered with an error status, the other was lost in transport, and
\* each model got exactly one request.
C12_Witness ==
    /\ fn = "chat"
    /\ pc = "raised"
    /\ \E m, k \in DOMAIN futures :
          /\ futures[m].reply = "status"
          /\ futures[k].reply = "transport"
          /\ futures[m].sent = 1
          /\ futures[k].sent = 1

\* C16: at every point of a dispatch, in whatever order the tasks end and
\* are collected, each entry of the results dictionary is the response of
\* the task submitted for its key and names its key's model id; and a
\* dictionary that is returned holds the response of every task.
C16_StoredUnderItsModel ==
    fn = "chat" =>
        /\ \A m \in DOMAIN results :
              /\ m \in DOMAIN futures
              /\ results[m] = futures[m].out
              /\ results[m].kind = "value"
              /\ results[m].model = m.id
        /\ pc = "returned" =>
              \A m \in args.models : m \in DOMAIN results /\ results[m].model = m.id

\* C16 witness: a dispatch over two models has returned; the two responses
\* carry different generation ids and different model ids.
C16_Witness ==
    /\ fn = "chat"
    /\ pc = "returned"
    /\ \E m, k \in DOMAIN results :
          /\ results[m].model # results[k].model
          /\ results[m].id # results[k].id

\* C17: between script runs the stored stats belong to the stored
\* responses: every model with stats has a response, and the stats carry
\* that response's id.
C17_StatsBelongToResponses ==
    pc = "idle" =>
        \A m \in DOMAIN session.cost_and_stats :
            /\ m \in DOMAIN session.response
            /\ session.cost_and_stats[m].id = session.response[m].id

\* C18: a Send whose dispatch raises leaves both fields of the session
\* state as they were, and so does the end of that script run: the run
\* after it starts from the results of the batch before.
C18_FailedDispatchKeepsResults ==
    [][ /\ (pc = "idle" /\ pc' = "raised" /\ fn' = "chat") => session' = session
        /\ (pc = "raised" /\ fn = "chat") => session' = session ]_vars

\* C18 witness: a dispatch has raised while the session holds the
\* responses and the stats of an earlier batch.
C18_Witness ==
    /\ pc = "raised"
    /\ fn = "chat"
    /\ DOMAIN session.response # {}
    /\ DOMAIN session.cost_and_stats # {}

\* C15: the mappings built from the models are keyed by the model id
\* alone: in the stored responses and stats no two keys share an id, and
\* the export has a key for every stored model, two models of different
\* ids never under the same one, with the model's response under its key.
C15_KeyedByIdAlone ==
    /\ \A m, k \in DOMAIN session.response : m.id = k.id => m = k
    /\ \A m, k \in DOMAIN session.cost_and_stats : m.id = k.id => m = k
    /\ download.kind = "results" =>
          \E key \in [DOMAIN session.response -> DOMAIN download.json] :
              \A m, k \in DOMAIN session.response :
                  /\ m.id # k.id => key[m] # key[k]
                  /\ download.json[key[m]].response = session.response[m]

\* C13: no task of a batch ever waits for a worker: whenever a task is
\* still queued the executor has a worker free for it, so that all tasks
\* of the batch can be under way at once; and outside the library call no
\* task of a pool is queued or under way.
C13_PoolSizedToBatch ==
    /\ \A m \in DOMAIN futures :
          futures[m].st = "queued" => Cardinality(Running) < DefaultMaxWorkers
    /\ pc \in {"idle", "returned", "raised"} =>
          \A m \in DOMAIN futures : futures[m].st = "done"

\* C14: with every request ending and the executor handing queued tasks
\* to its workers, every call of chat_completion_multiple and of
\* cost_and_stats_multiple comes back, with its dictionary or with an
\* exception, also over more models than the executor has workers.
C14_BatchTerminates ==
    (pc \in {"collect", "shutdown"}) ~> (pc \in {"returned", "raised"})

\* C14 witness: both outcomes of a batch that outnumbers the workers.  A
\* dispatch over more models than workers has returned its dictionary.
C14_Witness ==
    /\ fn = "chat"
    /\ pc = "returned"
    /\ Cardinality(DOMAIN results) > DefaultMaxWorkers

====
